---- MODULE Spec2Model ----
(***************************************************************************)
(* Model of ydls: the youtubedl package (codec normalisation, metadata     *)
(* parsing, the metadata fetch and the download process with its watcher)  *)
(* and the feed builder of internal/ydls/rss.go.                           *)
(*                                                                         *)
(* Strings are sequences of one-character strings, so that trimming,       *)
(* lower-casing and splitting are computed character by character.         *)
(***************************************************************************)
EXTENDS Integers, Sequences, FiniteSets, TLC

VARIABLES
    codecPc,      \* position of the codec normalisation run
    codecIn,      \* a raw codec string c
    codecVariant, \* c with changed letter case / surrounding whitespace
    codecOnce,    \* normalizeCodecName(c)
    codecOnceVar, \* normalizeCodecName(variant)
    codecTwice,   \* normalizeCodecName(normalizeCodecName(c))
    parsePc,      \* position of the parseInfo run
    parseValid,   \* whether the bytes read are well-formed JSON
    parseIn,      \* Formats as decoded from the JSON, before the loop
    parseOut,     \* Formats after the normalisation loop
    selPc,        \* position of the stream selection of a request
    selFormats,   \* the format catalog of the parsed metadata
    selRequest,   \* the required kinds and codec preference lists
    selStreams,   \* the candidate selected for each kind (0: none)
    selResult,    \* the outcome of the selection
    feedPc,       \* position of the RSSFromYDLSInfo call
    feedEntries,  \* info.Entries
    feedLimit,    \* options.Items, the item limit of the request
    feedItems,    \* channel.Items of the returned feed
    nfPc,         \* position of the NewFromURL call
    nfTempPath,   \* its scratch directory: "none", "exists" or "removed"
    nfCmd,        \* its youtube-dl process: "none", "running" or "exited"
    nfScript,     \* the stderr lines that process will still print
    nfExit,       \* the exit status that process will end with
    nfStderr,     \* the lines in the stderr pipe, not yet scanned
    nfResult,     \* what NewFromURL returned
    dlPc,         \* position of the Info.Download call
    dlTempPath,   \* its scratch directory: "none", "exists" or "removed"
    dlCmd,        \* its youtube-dl process: "none", "running" or "exited"
    dlScript,     \* the bytes that process will still write to stdout
    dlHang,       \* whether that process stays alive after its last byte
    dlStatus,     \* how that process ended
    dlPipe,       \* the bytes in the stdout pipe, not yet read
    dlStdout,     \* the read end handed to the caller: "none", "open", "closed"
    dlWatcher,    \* the goroutine around cmd.Wait: "none", "waiting", "reaped", "done"
    callerPc,     \* the caller: "none", "streaming", "waiting", "done"
    callerRead,   \* how the caller's reading ended: "none", "eof", "err"
    callerClosed, \* whether the caller closed the stream
    received,     \* the bytes the caller has read
    cancelled,    \* whether the cancellation signal was raised
    completions   \* the completion signals delivered

codecVars == <<codecPc, codecIn, codecVariant, codecOnce, codecOnceVar, codecTwice>>
parseVars == <<parsePc, parseValid, parseIn, parseOut>>
feedVars == <<feedPc, feedEntries, feedLimit, feedItems>>
nfVars == <<nfPc, nfTempPath, nfCmd, nfScript, nfExit, nfStderr, nfResult>>
dlVars == <<dlPc, dlTempPath, dlCmd, dlScript, dlHang, dlStatus, dlPipe, dlStdout, dlWatcher>>
callerVars == <<callerPc, callerRead, callerClosed, received, cancelled, completions>>
procVars == <<nfVars, dlVars, callerVars>>
selVars == <<selPc, selFormats, selRequest, selStreams, selResult>>
vars == <<codecVars, parseVars, selVars, feedVars, procVars>>

(***************************************************************************)
(* Bounds                                                                  *)
(***************************************************************************)
MaxPad == 1
MaxParseFormats == 1
MaxCatalog == 3
MaxEntries == 3
MaxItems == 2
MaxLines == 2
MaxBytes == 3
PipeCap == 2

(***************************************************************************)
(* Character strings                                                       *)
(***************************************************************************)
UpperChars == <<"A","B","C","D","E","F","G","H","I","J","K","L","M",
                "N","O","P","Q","R","S","T","U","V","W","X","Y","Z">>
LowerChars == <<"a","b","c","d","e","f","g","h","i","j","k","l","m",
                "n","o","p","q","r","s","t","u","v","w","x","y","z">>

\* unicode.ToLower on one character
ToLowerChar(ch) ==
    IF \E i \in 1..Len(UpperChars) : UpperChars[i] = ch
    THEN LowerChars[CHOOSE i \in 1..Len(UpperChars) : UpperChars[i] = ch]
    ELSE ch

ToUpperChar(ch) ==
    IF \E i \in 1..Len(LowerChars) : LowerChars[i] = ch
    THEN UpperChars[CHOOSE i \in 1..Len(LowerChars) : LowerChars[i] = ch]
    ELSE ch

\* strings.ToLower
ToLower(s) == [i \in 1..Len(s) |-> ToLowerChar(s[i])]

RECURSIVE TrimLeft(_, _)
TrimLeft(s, cut) ==
    IF s # <<>> /\ Head(s) \in cut THEN TrimLeft(Tail(s), cut) ELSE s

RECURSIVE TrimRight(_, _)
TrimRight(s, cut) ==
    IF s # <<>> /\ s[Len(s)] \in cut
    THEN TrimRight(SubSeq(s, 1, Len(s) - 1), cut)
    ELSE s

\* strings.Trim(s, cutset)
Trim(s, cut) == TrimRight(TrimLeft(s, cut), cut)

\* strings.SplitN(s, sep, 2)[0] for a one-character separator
RECURSIVE SplitFirst(_, _)
SplitFirst(s, sep) ==
    IF s = <<>> \/ Head(s) = sep
    THEN <<>>
    ELSE <<Head(s)>> \o SplitFirst(Tail(s), sep)

S_none == <<"n","o","n","e">>
S_avc1 == <<"a","v","c","1">>
S_mp4a == <<"m","p","4","a">>
S_mp4v == <<"m","p","4","v">>
S_h264 == <<"h","2","6","4">>
S_aac  == <<"a","a","c">>
S_mp3  == <<"m","p","3">>
S_mp4  == <<"m","p","4">>
S_flv  == <<"f","l","v">>
S_webm == <<"w","e","b","m">>
S_opus == <<"o","p","u","s">>
S_vp9  == <<"v","p","9">>

(***************************************************************************)
(* normalizeCodecName                                                      *)
(***************************************************************************)
codecNameNormalizeMap(c) ==
    CASE c = S_none -> <<>>
      [] c = S_avc1 -> S_h264
      [] c = S_mp4a -> S_aac
      [] c = S_mp4v -> S_h264
      [] OTHER      -> c

normalizeCodecName(c) ==
    codecNameNormalizeMap(SplitFirst(ToLower(Trim(c, {" "})), "."))

(***************************************************************************)
(* Inputs of the codec normalisation run                                   *)
(***************************************************************************)
\* every way of writing s with each letter in upper or lower case
RECURSIVE CaseVariants(_)
CaseVariants(s) ==
    IF s = <<>> THEN {<<>>}
    ELSE LET rest == CaseVariants(Tail(s))
         IN  {<<ToLowerChar(Head(s))>> \o r : r \in rest}
             \cup {<<ToUpperChar(Head(s))>> \o r : r \in rest}

\* runs of at most n spaces
RECURSIVE Pads(_)
Pads(n) ==
    IF n = 0 THEN {<<>>}
    ELSE LET shorter == Pads(n - 1)
         IN  shorter \cup {<<" ">> \o p : p \in shorter}

CodecCores == {<<>>, S_none, S_avc1, S_mp4a, S_mp4v, S_opus, S_h264}
CodecGaps == {<<>>, <<" ">>}
CodecSuffixes == {<<>>, <<".">>, <<".", "6", "4">>, <<".", "4", "0", ".", "2">>}

CodecInputs ==
    {core \o gap \o suf : core \in CodecCores, gap \in CodecGaps, suf \in CodecSuffixes}

\* c' obtained from c by changing letter case and adding surrounding whitespace
VariantsOf(c) ==
    {l \o v \o r : l \in Pads(MaxPad), v \in CaseVariants(c), r \in Pads(MaxPad)}

CodecInit ==
    /\ codecPc = "start"
    /\ codecIn \in CodecInputs
    /\ codecVariant \in VariantsOf(codecIn)
    /\ codecOnce = <<>>
    /\ codecOnceVar = <<>>
    /\ codecTwice = <<>>

CodecIdle ==
    /\ codecPc = "off"
    /\ codecIn = <<>>
    /\ codecVariant = <<>>
    /\ codecOnce = <<>>
    /\ codecOnceVar = <<>>
    /\ codecTwice = <<>>

\* normalise c and its variant
Normalize ==
    /\ codecPc = "start"
    /\ codecOnce' = normalizeCodecName(codecIn)
    /\ codecOnceVar' = normalizeCodecName(codecVariant)
    /\ codecPc' = "normalized"
    /\ UNCHANGED <<codecIn, codecVariant, codecTwice>>

\* normalise the result again
Renormalize ==
    /\ codecPc = "normalized"
    /\ codecTwice' = normalizeCodecName(codecOnce)
    /\ codecPc' = "renormalized"
    /\ UNCHANGED <<codecIn, codecVariant, codecOnce, codecOnceVar>>

(***************************************************************************)
(* codecFromExt and parseInfo                                              *)
(***************************************************************************)
\* guess codecs based on ext: <<acodec, vcodec>>
codecFromExt(ext) ==
    LET e == ToLower(ext)
    IN  CASE e = S_mp3 -> <<S_mp3, <<>>>>
          [] e = S_mp4 -> <<S_aac, S_h264>>
          [] e = S_flv -> <<S_aac, S_h264>>
          [] OTHER     -> <<<<>>, <<>>>>

\* the ext fallback applied when the normalised name is empty
parseFormatFallbackOnNorm(f) ==
    LET extCodec == codecFromExt(f.Ext)
        na == normalizeCodecName(f.ACodec)
        nv == normalizeCodecName(f.VCodec)
    IN  [f EXCEPT !.NormACodec = IF na = <<>> THEN extCodec[1] ELSE na,
                  !.NormVCodec = IF nv = <<>> THEN extCodec[2] ELSE nv,
                  !.NormBR = IF f.TBR # 0 THEN f.TBR ELSE f.ABR + f.VBR]

\* body of the loop over i.Formats
parseFormat(f) ==
    LET extCodec == codecFromExt(f.Ext)
    IN  [f EXCEPT !.NormACodec = IF f.ACodec = <<>> THEN extCodec[1]
                                 ELSE normalizeCodecName(f.ACodec),
                  !.NormVCodec = IF f.VCodec = <<>> THEN extCodec[2]
                                 ELSE normalizeCodecName(f.VCodec),
                  !.NormBR = IF f.TBR # 0 THEN f.TBR ELSE f.ABR + f.VBR]

\* the Formats of the Info parseInfo returns
parseInfo(fs) == [i \in 1..Len(fs) |-> parseFormat(fs[i])]

\* a Format as json.Unmarshal leaves it: NormBR, NormACodec and NormVCodec
\* carry no json tag, so a key of that name in the input fills them
RawFormat(id, ext, ac, vc, tbr, stale) ==
    [FormatID |-> id, Ext |-> ext, ACodec |-> ac, VCodec |-> vc,
     TBR |-> tbr, ABR |-> 1, VBR |-> 2,
     NormBR |-> Len(stale) * 9, NormACodec |-> stale, NormVCodec |-> stale]

ParseExts == {S_mp3, <<"M","P","3">>, S_mp4, <<"M","p","4">>, S_flv, S_webm}
ParseACodecs == {<<>>, S_none, S_mp4a \o <<".","4","0",".","2">>, S_opus, <<" ">>}
ParseVCodecs == {<<>>, S_none, S_avc1 \o <<".","6","4">>}
ParseStale == {<<>>, <<"x">>}

ParseFormats ==
    {RawFormat(0, e, a, v, t, n) : e \in ParseExts, a \in ParseACodecs, v \in ParseVCodecs,
                                t \in {0, 5}, n \in ParseStale}

\* sequences over S of length at most n
RECURSIVE SeqsUpTo(_, _)
SeqsUpTo(S, n) ==
    IF n = 0 THEN {<<>>}
    ELSE LET shorter == SeqsUpTo(S, n - 1)
         IN  shorter \cup {<<x>> \o t : x \in S, t \in {u \in shorter : Len(u) = n - 1}}

ParseInit ==
    /\ parsePc = "start"
    /\ parseValid \in BOOLEAN
    /\ parseIn \in SeqsUpTo(ParseFormats, MaxParseFormats)
    /\ parseOut = <<>>

ParseIdle ==
    /\ parsePc = "off"
    /\ parseValid = TRUE
    /\ parseIn = <<>>
    /\ parseOut = <<>>

\* parseInfo on well-formed bytes
ParseInfoOk ==
    /\ parsePc = "start"
    /\ parseValid
    /\ parseOut' = parseInfo(parseIn)
    /\ parsePc' = "parsed"
    /\ UNCHANGED <<parseValid, parseIn>>

\* parseInfo on bytes json.Unmarshal rejects: return nil, err
ParseInfoErr ==
    /\ parsePc = "start"
    /\ ~parseValid
    /\ parsePc' = "error"
    /\ UNCHANGED <<parseValid, parseIn, parseOut>>

(***************************************************************************)
(* The format negotiator and the stream resolution of a request            *)
(***************************************************************************)
\* the normalised codec of a candidate for a media kind
NormCodec(f, kind) == IF kind = "audio" THEN f.NormACodec ELSE f.NormVCodec

\* candidate order: the first candidate from position i on whose codec for
\* the kind is not empty and equals the codec (0: none)
RECURSIVE firstWithCodec(_, _, _, _)
firstWithCodec(fs, kind, codec, i) ==
    IF i > Len(fs) THEN 0
    ELSE IF NormCodec(fs[i], kind) # <<>> /\ NormCodec(fs[i], kind) = codec THEN i
    ELSE firstWithCodec(fs, kind, codec, i + 1)

\* the first candidate from position i on with any codec for the kind
RECURSIVE firstWithKind(_, _, _)
firstWithKind(fs, kind, i) ==
    IF i > Len(fs) THEN 0
    ELSE IF NormCodec(fs[i], kind) # <<>> THEN i
    ELSE firstWithKind(fs, kind, i + 1)

\* preference order outer, candidate order inner
RECURSIVE findByPreference(_, _, _)
findByPreference(fs, kind, codecs) ==
    IF codecs = <<>> THEN 0
    ELSE LET i == firstWithCodec(fs, kind, Head(codecs), 1)
         IN  IF i # 0 THEN i ELSE findByPreference(fs, kind, Tail(codecs))

InSeq(x, q) == \E i \in 1..Len(q) : q[i] = x

\* candidate order outer: the first candidate whose codec is any of the
\* preferred ones
RECURSIVE findCandidateMajor(_, _, _, _)
findCandidateMajor(fs, kind, codecs, i) ==
    IF i > Len(fs) THEN 0
    ELSE IF NormCodec(fs[i], kind) # <<>> /\ InSeq(NormCodec(fs[i], kind), codecs) THEN i
    ELSE findCandidateMajor(fs, kind, codecs, i + 1)

findYDLFormatCandidateMajor(fs, kind, codecs) ==
    IF codecs = <<>> THEN firstWithKind(fs, kind, 1)
    ELSE findCandidateMajor(fs, kind, codecs, 1)

\* select(candidates, mediaKind, preferredCodecs): the position of the
\* selected candidate, 0 when none is found
findYDLFormat(fs, kind, codecs) ==
    IF codecs = <<>> THEN firstWithKind(fs, kind, 1)
    ELSE findByPreference(fs, kind, codecs)

\* the preference list in force for a kind: the explicit override when
\* given, else the profile's list
effectiveCodecs(req, kind) ==
    IF req.codecs # <<>> THEN req.codecs
    ELSE IF kind = "audio" THEN req.acodecs ELSE req.vcodecs

\* the negotiator run for every kind the profile requires
selectStreams(fs, req) ==
    [audio |-> IF req.audio THEN findYDLFormat(fs, "audio", effectiveCodecs(req, "audio")) ELSE 0,
     video |-> IF req.video THEN findYDLFormat(fs, "video", effectiveCodecs(req, "video")) ELSE 0]

\* an outcome that fails only when no required kind at all is found
resolveOutcomeAnyFound(req, streams) ==
    IF (req.audio /\ streams.audio # 0) \/ (req.video /\ streams.video # 0)
    THEN "StreamsSelected"
    ELSE "UnsatisfiableRequestError"

\* a required kind with no match is an UnsatisfiableRequestError
resolveOutcome(req, streams) ==
    IF (req.audio /\ streams.audio = 0) \/ (req.video /\ streams.video = 0)
    THEN "UnsatisfiableRequestError"
    ELSE "StreamsSelected"

\* the sources a catalog is drawn from, as the extraction tool reports them
CatalogKinds ==
    {<<S_mp4, S_mp4a \o <<".","4","0",".","2">>, S_avc1 \o <<".","6","4">>, 5>>,
     <<S_webm, S_opus, S_none, 0>>,
     <<S_webm, S_none, S_vp9, 5>>,
     <<S_mp4, <<>>, <<>>, 1>>,
     <<S_mp3, <<>>, S_none, 2>>,
     <<S_webm, S_none, S_none, 0>>}

\* the catalog parseInfo makes of the reported formats, FormatID by position
CatalogOf(kinds) ==
    parseInfo([i \in 1..Len(kinds) |->
        RawFormat(i, kinds[i][1], kinds[i][2], kinds[i][3], kinds[i][4], <<>>)])

ProfileACodecs == {<<>>, <<S_aac>>, <<S_opus, S_aac>>, <<S_mp3, S_opus>>}
ProfileVCodecs == {<<>>, <<S_h264>>, <<S_vp9, S_h264>>, <<<<>>, S_h264>>}
ExplicitCodecs == {<<>>, <<S_opus, S_vp9>>}

Requests ==
    {[audio |-> TRUE, video |-> FALSE, acodecs |-> a, vcodecs |-> <<>>, codecs |-> c] :
        a \in ProfileACodecs, c \in ExplicitCodecs}
    \cup {[audio |-> FALSE, video |-> TRUE, acodecs |-> <<>>, vcodecs |-> v, codecs |-> c] :
        v \in ProfileVCodecs, c \in ExplicitCodecs}
    \cup {[audio |-> TRUE, video |-> TRUE, acodecs |-> a, vcodecs |-> v, codecs |-> c] :
        a \in ProfileACodecs, v \in ProfileVCodecs, c \in ExplicitCodecs}

NoStreams == [audio |-> 0, video |-> 0]

SelInit ==
    /\ selPc = "MetadataReady"
    /\ selFormats \in {CatalogOf(k) : k \in SeqsUpTo(CatalogKinds, MaxCatalog)}
    /\ selRequest \in Requests
    /\ selStreams = NoStreams
    /\ selResult = "none"

SelIdle ==
    /\ selPc = "off"
    /\ selFormats = <<>>
    /\ selRequest = [audio |-> FALSE, video |-> FALSE, acodecs |-> <<>>, vcodecs |-> <<>>, codecs |-> <<>>]
    /\ selStreams = NoStreams
    /\ selResult = "none"

\* resolveStreams(metadata, profile, explicitCodecs)
ResolveStreams ==
    /\ selPc = "MetadataReady"
    /\ LET streams == selectStreams(selFormats, selRequest)
       IN  /\ selStreams' = streams
           /\ selResult' = resolveOutcome(selRequest, streams)
           /\ selPc' = IF resolveOutcome(selRequest, streams) = "StreamsSelected"
                       THEN "StreamsSelected" ELSE "Failed"
    /\ UNCHANGED <<selFormats, selRequest>>

(***************************************************************************)
(* time.Parse("20060102", s) and RSSFromYDLSInfo                           *)
(***************************************************************************)
Digits == <<"0","1","2","3","4","5","6","7","8","9">>

\* isDigit(s, i), with i counted from 1
isDigit(s, i) == Len(s) >= i /\ \E d \in 1..10 : Digits[d] = s[i]

DigitVal(ch) == (CHOOSE d \in 1..10 : Digits[d] = ch) - 1

isLeap(year) == year % 4 = 0 /\ (year % 100 # 0 \/ year % 400 = 0)

daysIn(month, year) ==
    IF month = 2 THEN (IF isLeap(year) THEN 29 ELSE 28)
    ELSE IF month \in {4, 6, 9, 11} THEN 30 ELSE 31

\* Time.Weekday of a calendar date, 0 = Sunday
weekday(year, month, day) ==
    LET t == <<0, 3, 2, 5, 0, 3, 5, 1, 4, 6, 2, 4>>
        y == IF month < 3 THEN year - 1 ELSE year
    IN  (y + (y \div 4) - (y \div 100) + (y \div 400) + t[month] + day) % 7

NoTime == [ok |-> FALSE, year |-> 0, month |-> 0, day |-> 0]

\* the parse without the validation of the day of the month
timeParseNoDayCheck(s) ==
    IF Len(s) < 4 \/ ~isDigit(s, 1) THEN NoTime
    ELSE IF \E i \in 2..4 : ~isDigit(s, i) THEN NoTime
    ELSE IF ~isDigit(s, 5) \/ ~isDigit(s, 6) THEN NoTime
    ELSE IF ~isDigit(s, 7) \/ ~isDigit(s, 8) THEN NoTime
    ELSE IF Len(s) # 8 THEN NoTime
    ELSE [ok |-> TRUE,
          year |-> DigitVal(s[1]) * 1000 + DigitVal(s[2]) * 100
                   + DigitVal(s[3]) * 10 + DigitVal(s[4]),
          month |-> DigitVal(s[5]) * 10 + DigitVal(s[6]),
          day |-> DigitVal(s[7]) * 10 + DigitVal(s[8])]

\* time.Parse("20060102", s): a four-digit year, a two-digit month checked
\* against 1..12, a two-digit day, no text left over, and the day checked
\* against the length of the month
timeParse(s) ==
    IF Len(s) < 4 \/ ~isDigit(s, 1) THEN NoTime
    ELSE IF \E i \in 2..4 : ~isDigit(s, i) THEN NoTime
    ELSE IF ~isDigit(s, 5) \/ ~isDigit(s, 6) THEN NoTime
    ELSE LET year == DigitVal(s[1]) * 1000 + DigitVal(s[2]) * 100
                     + DigitVal(s[3]) * 10 + DigitVal(s[4])
             month == DigitVal(s[5]) * 10 + DigitVal(s[6])
         IN  IF month <= 0 \/ 12 < month THEN NoTime
             ELSE IF ~isDigit(s, 7) \/ ~isDigit(s, 8) THEN NoTime
             ELSE IF Len(s) # 8 THEN NoTime
             ELSE LET day == DigitVal(s[7]) * 10 + DigitVal(s[8])
                  IN  IF day < 1 \/ day > daysIn(month, year) THEN NoTime
                      ELSE [ok |-> TRUE, year |-> year, month |-> month, day |-> day]

\* d.Format(time.RFC1123Z) of a date at midnight UTC, as its fields:
\* "Mon, 02 Jan 2006 15:04:05 -0700"
formatRFC1123Z(d) ==
    <<weekday(d.year, d.month, d.day), d.day, d.month, d.year, 0, 0, 0, "+0000">>

\* pubDate of one entry
pubDateOf(uploadDate) ==
    IF uploadDate # <<>>
    THEN LET d == timeParse(uploadDate)
         IN  IF d.ok THEN formatRFC1123Z(d) ELSE <<>>
    ELSE <<>>

\* the Item appended for one entry
itemOf(entry) ==
    [GUID |-> entry.ID, PubDate |-> pubDateOf(entry.UploadDate), Link |-> entry.WebpageURL]

\* the loop over info.Entries, skipping nested playlists
RECURSIVE feedItemsOf(_)
feedItemsOf(entries) ==
    IF entries = <<>> THEN <<>>
    ELSE IF Head(entries).Type = "playlist" \/ Head(entries).Type = "multi_video"
         THEN feedItemsOf(Tail(entries))
         ELSE <<itemOf(Head(entries))>> \o feedItemsOf(Tail(entries))

S_20240229 == <<"2","0","2","4","0","2","2","9">>
S_20230229 == <<"2","0","2","3","0","2","2","9">>
S_19000229 == <<"1","9","0","0","0","2","2","9">>
S_20241301 == <<"2","0","2","4","1","3","0","1">>
S_20240100 == <<"2","0","2","4","0","1","0","0">>
S_20240431 == <<"2","0","2","4","0","4","3","1">>
S_malformed == <<"2","0","2","4","-","1","3","-","9","9">>
S_short == <<"2","0","2","4","0","2","2">>
S_long == <<"2","0","2","4","0","2","2","9","1">>

UploadDates ==
    {<<>>, S_20240229, S_20230229, S_19000229, S_20241301, S_20240100,
     S_20240431, S_malformed, S_short, S_long}

\* the kinds of child a playlist may hold: a type tag and an upload date
EntryKinds ==
    {[Type |-> "video", UploadDate |-> d] : d \in UploadDates}
    \cup {[Type |-> "playlist", UploadDate |-> <<>>],
          [Type |-> "multi_video", UploadDate |-> S_20240229]}

\* the children in order, each with its position as ID and page URL
EntriesOf(kinds) ==
    [i \in 1..Len(kinds) |->
        [ID |-> i, WebpageURL |-> i, Type |-> kinds[i].Type,
         UploadDate |-> kinds[i].UploadDate]]

FeedInit ==
    /\ feedPc = "start"
    /\ feedEntries \in {EntriesOf(k) : k \in SeqsUpTo(EntryKinds, MaxEntries)}
    /\ feedLimit \in 0..MaxItems
    /\ feedItems = <<>>

FeedIdle ==
    /\ feedPc = "off"
    /\ feedEntries = <<>>
    /\ feedLimit = 0
    /\ feedItems = <<>>

\* RSSFromYDLSInfo(options, info, linkIconRawURL)
BuildFeed ==
    /\ feedPc = "start"
    /\ feedItems' = feedItemsOf(feedEntries)
    /\ feedPc' = "built"
    /\ UNCHANGED <<feedEntries, feedLimit>>

(***************************************************************************)
(* NewFromURL: the metadata fetch                                          *)
(***************************************************************************)
\* what the deferred os.RemoveAll(tempPath) leaves of a directory
RemoveAll(dir) == IF dir = "exists" THEN "removed" ELSE dir

\* NewFromURL up to cmd.Start: the scratch directory, the command, its
\* pipes; an error return runs the deferred RemoveAll
NewFromURLStart ==
    /\ nfPc = "idle"
    /\ \E tempDirOk \in BOOLEAN :
       \E outcome \in {"StderrPipeErr", "StdinPipeErr", "StartErr", "started"} :
          LET dir == IF tempDirOk THEN "exists" ELSE "none"
          IN  IF outcome = "started"
              THEN /\ nfTempPath' = dir
                   /\ nfCmd' = "running"
                   /\ nfPc' = "scanning"
                   /\ UNCHANGED nfResult
              ELSE /\ nfTempPath' = RemoveAll(dir)
                   /\ nfPc' = "returned"
                   /\ nfResult' = outcome
                   /\ UNCHANGED nfCmd
    /\ UNCHANGED <<nfScript, nfExit, nfStderr>>

\* the extraction tool prints its next diagnostic line; it blocks while the
\* pipe is full
ToolPrint ==
    /\ nfCmd = "running"
    /\ nfScript # <<>>
    /\ Len(nfStderr) < PipeCap
    /\ nfStderr' = Append(nfStderr, Head(nfScript))
    /\ nfScript' = Tail(nfScript)
    /\ UNCHANGED <<nfPc, nfTempPath, nfCmd, nfExit, nfResult>>

\* the extraction tool exits after its last line
ToolExit ==
    /\ nfCmd = "running"
    /\ nfScript = <<>>
    /\ nfCmd' = "exited"
    /\ UNCHANGED <<nfPc, nfTempPath, nfScript, nfExit, nfStderr, nfResult>>

\* one turn of the scanner loop: a line with the ERROR prefix returns at
\* once, and the deferred RemoveAll runs
ScanLine ==
    /\ nfPc = "scanning"
    /\ nfStderr # <<>>
    /\ nfStderr' = Tail(nfStderr)
    /\ IF Head(nfStderr) = "ERROR"
       THEN /\ nfPc' = "returned"
            /\ nfResult' = "Error"
            /\ nfTempPath' = RemoveAll(nfTempPath)
       ELSE UNCHANGED <<nfPc, nfResult, nfTempPath>>
    /\ UNCHANGED <<nfCmd, nfScript, nfExit>>

\* the scanner reaches the end of stderr (the tool has exited): cmd.Wait,
\* then NewFromPath, then the deferred RemoveAll
ScanEnd ==
    /\ nfPc = "scanning"
    /\ nfStderr = <<>>
    /\ nfCmd = "exited"
    /\ \E pathOk \in BOOLEAN :
        nfResult' = IF nfExit # 0 THEN "WaitErr"
                    ELSE IF pathOk THEN "Info" ELSE "PathErr"
    /\ nfPc' = "returned"
    /\ nfTempPath' = RemoveAll(nfTempPath)
    /\ UNCHANGED <<nfCmd, nfScript, nfExit, nfStderr>>

(***************************************************************************)
(* Info.Download: the download process and its watcher                     *)
(***************************************************************************)
\* Info.Download: the scratch directory, the metadata file, the stdout
\* pipe, cmd.Start and the goroutine around cmd.Wait
Download ==
    /\ dlPc = "idle"
    /\ \E outcome \in {"TempDirErr", "WriteFileErr", "StdoutPipeErr", "StartErr", "started"} :
          /\ dlTempPath' = IF outcome = "TempDirErr" THEN "none" ELSE "exists"
          /\ IF outcome = "started"
             THEN /\ dlPc' = "started"
                  /\ dlCmd' = "running"
                  /\ dlStdout' = "open"
                  /\ dlWatcher' = "waiting"
             ELSE /\ dlPc' = "failed"
                  /\ UNCHANGED <<dlCmd, dlStdout, dlWatcher>>
    /\ UNCHANGED <<dlScript, dlHang, dlStatus, dlPipe>>

\* the download tool writes its next byte: into the pipe while there is
\* room, or, with the read end closed, dying of the broken pipe
ProcWrite ==
    /\ dlCmd = "running"
    /\ dlScript # <<>>
    /\ IF dlStdout = "closed"
       THEN /\ dlCmd' = "exited"
            /\ dlStatus' = "sigpipe"
            /\ UNCHANGED <<dlPipe, dlScript>>
       ELSE /\ Len(dlPipe) < PipeCap
            /\ dlPipe' = Append(dlPipe, Head(dlScript))
            /\ dlScript' = Tail(dlScript)
            /\ UNCHANGED <<dlCmd, dlStatus>>
    /\ UNCHANGED <<dlPc, dlTempPath, dlHang, dlStdout, dlWatcher>>

\* the download tool exits by itself after its last byte, unless it hangs
ProcExit ==
    /\ dlCmd = "running"
    /\ dlScript = <<>>
    /\ ~dlHang
    /\ dlCmd' = "exited"
    /\ \E st \in {"zero", "nonzero"} : dlStatus' = st
    /\ UNCHANGED <<dlPc, dlTempPath, dlScript, dlHang, dlPipe, dlStdout, dlWatcher>>

\* cmd.Wait returns in the goroutine: the process has exited, and Wait
\* closes the read end of the stdout pipe
WatcherWait ==
    /\ dlWatcher = "waiting"
    /\ dlCmd = "exited"
    /\ dlWatcher' = "reaped"
    /\ dlStdout' = "closed"
    /\ UNCHANGED <<dlPc, dlTempPath, dlCmd, dlScript, dlHang, dlStatus, dlPipe>>

\* the goroutine returns: the deferred os.RemoveAll(tempPath); the error of
\* cmd.Wait is dropped
WatcherCleanup ==
    /\ dlWatcher = "reaped"
    /\ dlWatcher' = "done"
    /\ dlTempPath' = RemoveAll(dlTempPath)
    /\ UNCHANGED <<dlPc, dlCmd, dlScript, dlHang, dlStatus, dlPipe, dlStdout>>

\* run(metadata, selectedStreams, ...): the download of the selected streams
RunPipeline ==
    /\ selPc = "StreamsSelected"
    /\ Download
    /\ selPc' = IF dlPc' = "started" THEN "PipelineRunning" ELSE "Failed"
    /\ selResult' = IF dlPc' = "started" THEN "DownloadResult" ELSE "ProcessError"
    /\ UNCHANGED <<selFormats, selRequest, selStreams>>

(***************************************************************************)
(* The caller of a download: reads, Close, the cancellation signal and     *)
(* the wait for completion                                                 *)
(***************************************************************************)
\* a Read on the stream: bytes from the pipe, end of stream once the pipe
\* is empty and the process has exited, an error on a closed read end; it
\* blocks on an empty pipe of a running process
CallerRead ==
    /\ callerPc = "streaming"
    /\ callerRead = "none"
    /\ IF dlStdout = "closed"
       THEN /\ callerRead' = "err"
            /\ UNCHANGED <<received, dlPipe>>
       ELSE IF dlPipe # <<>>
       THEN /\ \E k \in 1..Len(dlPipe) :
                /\ received' = received \o SubSeq(dlPipe, 1, k)
                /\ dlPipe' = SubSeq(dlPipe, k + 1, Len(dlPipe))
            /\ UNCHANGED callerRead
       ELSE /\ dlCmd = "exited"
            /\ callerRead' = "eof"
            /\ UNCHANGED <<received, dlPipe>>
    /\ UNCHANGED <<callerPc, callerClosed, cancelled, completions>>
    /\ UNCHANGED <<dlPc, dlTempPath, dlCmd, dlScript, dlHang, dlStatus, dlStdout, dlWatcher>>

\* Close on the stream
CallerClose ==
    /\ callerPc = "streaming"
    /\ ~callerClosed
    /\ callerClosed' = TRUE
    /\ dlStdout' = "closed"
    /\ UNCHANGED <<callerPc, callerRead, received, cancelled, completions>>
    /\ UNCHANGED <<dlPc, dlTempPath, dlCmd, dlScript, dlHang, dlStatus, dlPipe, dlWatcher>>

\* the cancellation signal is raised: the stream is the only handle on the
\* download that Info.Download returns, and it is closed
Cancel ==
    /\ dlPc = "started"
    /\ callerPc \in {"streaming", "waiting"}
    /\ ~cancelled
    /\ cancelled' = TRUE
    /\ dlStdout' = "closed"
    /\ UNCHANGED <<callerPc, callerRead, callerClosed, received, completions>>
    /\ UNCHANGED <<dlPc, dlTempPath, dlCmd, dlScript, dlHang, dlStatus, dlPipe, dlWatcher>>

\* the caller starts to wait for completion
CallerWait ==
    /\ callerPc = "streaming"
    /\ callerPc' = "waiting"
    /\ UNCHANGED <<callerRead, callerClosed, received, cancelled, completions>>
    /\ UNCHANGED dlVars

\* the wait returns once the watcher has seen the process exit and has
\* released the scratch directory
WaitReturn ==
    /\ callerPc = "waiting"
    /\ dlWatcher = "done"
    /\ callerPc' = "done"
    /\ completions' = completions + 1
    /\ UNCHANGED <<callerRead, callerClosed, received, cancelled>>
    /\ UNCHANGED dlVars

\* a request: the metadata fetch
FetchMetadata ==
    /\ NewFromURLStart
    /\ UNCHANGED <<dlVars, callerVars>>

\* a request, once its metadata is there: the download, whose stream goes
\* to the caller
RunDownload ==
    /\ nfResult = "Info"
    /\ Download
    /\ callerPc' = IF dlPc' = "started" THEN "streaming" ELSE "done"
    /\ UNCHANGED <<callerRead, callerClosed, received, cancelled, completions>>

ScriptLines == {"ERROR", "other"}

\* the bytes 1..n in the order the tool writes them
BytesUpTo(n) == [i \in 1..n |-> i]

ProcInit ==
    /\ nfPc = "idle"
    /\ nfTempPath = "none"
    /\ nfCmd = "none"
    /\ nfScript \in SeqsUpTo(ScriptLines, MaxLines)
    /\ nfExit \in {0, 1}
    /\ nfStderr = <<>>
    /\ nfResult = "none"
    /\ dlPc = "idle"
    /\ dlTempPath = "none"
    /\ dlCmd = "none"
    /\ dlScript \in {BytesUpTo(n) : n \in 0..MaxBytes}
    /\ dlHang \in BOOLEAN
    /\ dlStatus = "none"
    /\ dlPipe = <<>>
    /\ dlStdout = "none"
    /\ dlWatcher = "none"
    /\ callerPc = "none"
    /\ callerRead = "none"
    /\ callerClosed = FALSE
    /\ received = <<>>
    /\ cancelled = FALSE
    /\ completions = 0

ProcIdle ==
    /\ nfPc = "off"
    /\ nfTempPath = "none"
    /\ nfCmd = "none"
    /\ nfScript = <<>>
    /\ nfExit = 0
    /\ nfStderr = <<>>
    /\ nfResult = "none"
    /\ dlPc = "off"
    /\ dlTempPath = "none"
    /\ dlCmd = "none"
    /\ dlScript = <<>>
    /\ dlHang = FALSE
    /\ dlStatus = "none"
    /\ dlPipe = <<>>
    /\ dlStdout = "none"
    /\ dlWatcher = "none"
    /\ callerPc = "none"
    /\ callerRead = "none"
    /\ callerClosed = FALSE
    /\ received = <<>>
    /\ cancelled = FALSE
    /\ completions = 0

(***************************************************************************)
(* Specifications                                                          *)
(***************************************************************************)
others == <<codecVars, parseVars, selVars, feedVars>>

StepToolPrint == ToolPrint /\ UNCHANGED <<dlVars, callerVars, others>>
StepToolExit == ToolExit /\ UNCHANGED <<dlVars, callerVars, others>>
StepScanLine == ScanLine /\ UNCHANGED <<dlVars, callerVars, others>>
StepScanEnd == ScanEnd /\ UNCHANGED <<dlVars, callerVars, others>>
StepProcWrite == ProcWrite /\ UNCHANGED <<nfVars, callerVars, others>>
StepProcExit == ProcExit /\ UNCHANGED <<nfVars, callerVars, others>>
StepWatcherWait == WatcherWait /\ UNCHANGED <<nfVars, callerVars, others>>
StepWatcherCleanup == WatcherCleanup /\ UNCHANGED <<nfVars, callerVars, others>>
StepWaitReturn == WaitReturn /\ UNCHANGED <<nfVars, others>>

Init == ProcInit /\ CodecIdle /\ ParseIdle /\ SelIdle /\ FeedIdle

Next ==
    \/ FetchMetadata /\ UNCHANGED others
    \/ StepToolPrint
    \/ StepToolExit
    \/ StepScanLine
    \/ StepScanEnd
    \/ RunDownload /\ UNCHANGED <<nfVars, others>>
    \/ StepProcWrite
    \/ StepProcExit
    \/ StepWatcherWait
    \/ StepWatcherCleanup
    \/ CallerRead /\ UNCHANGED <<nfVars, others>>
    \/ CallerClose /\ UNCHANGED <<nfVars, others>>
    \/ Cancel /\ UNCHANGED <<nfVars, others>>
    \/ CallerWait /\ UNCHANGED <<nfVars, others>>
    \/ StepWaitReturn

Spec == Init /\ [][Next]_vars

\* the processes, the scanner, the watcher goroutine and a blocked wait are
\* run by the operating system and the Go scheduler: each takes its step
\* when it stays enabled; the caller need not read, close, cancel or wait
Fairness ==
    /\ WF_vars(StepToolPrint)
    /\ WF_vars(StepToolExit)
    /\ WF_vars(StepScanLine)
    /\ WF_vars(StepScanEnd)
    /\ WF_vars(StepProcWrite)
    /\ WF_vars(StepProcExit)
    /\ WF_vars(StepWatcherWait)
    /\ WF_vars(StepWatcherCleanup)
    /\ WF_vars(StepWaitReturn)

FairSpec == Spec /\ Fairness

CodecNext ==
    \/ Normalize /\ UNCHANGED <<parseVars, selVars, feedVars, procVars>>
    \/ Renormalize /\ UNCHANGED <<parseVars, selVars, feedVars, procVars>>

InitCodec == CodecInit /\ ParseIdle /\ SelIdle /\ FeedIdle /\ ProcIdle

SpecCodec == InitCodec /\ [][CodecNext]_vars

ParseNext ==
    \/ ParseInfoOk /\ UNCHANGED <<codecVars, selVars, feedVars, procVars>>
    \/ ParseInfoErr /\ UNCHANGED <<codecVars, selVars, feedVars, procVars>>

InitParse == ParseInit /\ CodecIdle /\ SelIdle /\ FeedIdle /\ ProcIdle

SpecParse == InitParse /\ [][ParseNext]_vars

FeedNext ==
    \/ BuildFeed /\ UNCHANGED <<codecVars, parseVars, selVars, procVars>>

InitFeed == FeedInit /\ CodecIdle /\ ParseIdle /\ SelIdle /\ ProcIdle

SpecFeed == InitFeed /\ [][FeedNext]_vars

\* the download of a request whose streams are selected: the process has
\* not been started, its tool will write MaxBytes bytes
SelProcInit ==
    /\ nfPc = "off"
    /\ nfTempPath = "none"
    /\ nfCmd = "none"
    /\ nfScript = <<>>
    /\ nfExit = 0
    /\ nfStderr = <<>>
    /\ nfResult = "Info"
    /\ dlPc = "idle"
    /\ dlTempPath = "none"
    /\ dlCmd = "none"
    /\ dlScript = BytesUpTo(MaxBytes)
    /\ dlHang = FALSE
    /\ dlStatus = "none"
    /\ dlPipe = <<>>
    /\ dlStdout = "none"
    /\ dlWatcher = "none"
    /\ callerPc = "none"
    /\ callerRead = "none"
    /\ callerClosed = FALSE
    /\ received = <<>>
    /\ cancelled = FALSE
    /\ completions = 0

SelNext ==
    \/ ResolveStreams /\ UNCHANGED <<codecVars, parseVars, feedVars, procVars>>
    \/ RunPipeline /\ UNCHANGED <<codecVars, parseVars, feedVars, nfVars, callerVars>>

InitSelect == SelInit /\ SelProcInit /\ CodecIdle /\ ParseIdle /\ FeedIdle

SpecSelect == InitSelect /\ [][SelNext]_vars

(***************************************************************************)
(* Claims                                                                  *)
(***************************************************************************)
\* C7 (as claimed): normalisation is idempotent, and a variant of c in letter
\* case or surrounding whitespace normalises to the same name as c.
C7_IdempotentInsensitive ==
    codecPc = "renormalized" =>
        /\ codecTwice = codecOnce
        /\ codecOnceVar = codecOnce

\* the extension table of the claim, on the lower-cased extension
C10_ExtTable(ext, kind) ==
    LET e == ToLower(ext)
    IN  IF e = S_mp3 THEN (IF kind = "audio" THEN S_mp3 ELSE <<>>)
        ELSE IF e = S_mp4 \/ e = S_flv THEN (IF kind = "audio" THEN S_aac ELSE S_h264)
        ELSE <<>>

C10_Expected(raw, ext, kind) ==
    IF raw = <<>> THEN C10_ExtTable(ext, kind)
    ELSE IF raw = S_none THEN <<>>
    ELSE normalizeCodecName(raw)

\* C10: after parse, an empty raw codec gives the extension table's value and
\* a non-empty raw codec gives normalize(raw) (so "none" gives the empty
\* codec whatever the extension); the derived fields never keep input values.
C10_ParseDerivesCodecs ==
    parsePc = "parsed" =>
        /\ Len(parseOut) = Len(parseIn)
        /\ \A i \in 1..Len(parseIn) :
            /\ parseOut[i].NormACodec = C10_Expected(parseIn[i].ACodec, parseIn[i].Ext, "audio")
            /\ parseOut[i].NormVCodec = C10_Expected(parseIn[i].VCodec, parseIn[i].Ext, "video")
            /\ parseOut[i].NormBR = (IF parseIn[i].TBR # 0 THEN parseIn[i].TBR
                                      ELSE parseIn[i].ABR + parseIn[i].VBR)
            /\ parseOut[i].ACodec = parseIn[i].ACodec
            /\ parseOut[i].VCodec = parseIn[i].VCodec
            /\ parseOut[i].Ext = parseIn[i].Ext

\* a parsed mp4 candidate with raw audio codec "none", an empty raw video
\* codec and stale derived fields in the input
C10_Witness ==
    /\ parsePc = "parsed"
    /\ \E i \in 1..Len(parseIn) :
        /\ parseIn[i].ACodec = S_none
        /\ parseIn[i].VCodec = <<>>
        /\ ToLower(parseIn[i].Ext) = S_mp4
        /\ parseIn[i].Ext # S_mp4
        /\ parseIn[i].NormACodec = <<"x">>
        /\ parseIn[i].NormBR # 0
        /\ parseIn[i].TBR = 0
        /\ parseOut[i].NormBR = parseIn[i].ABR + parseIn[i].VBR
        /\ parseOut[i].NormACodec = <<>>
        /\ parseOut[i].NormVCodec = S_h264

\* the children that are not nested playlists, in child order
RECURSIVE C6_Eligible(_)
C6_Eligible(entries) ==
    IF entries = <<>> THEN <<>>
    ELSE IF Head(entries).Type \in {"playlist", "multi_video"}
         THEN C6_Eligible(Tail(entries))
         ELSE <<Head(entries)>> \o C6_Eligible(Tail(entries))

C6_Min(a, b) == IF a < b THEN a ELSE b

\* C6 (as claimed): the feed holds one item per child that is not a nested
\* playlist, in child order, cut to the first itemLimit of them when
\* itemLimit is positive.
C6_ItemsTruncated ==
    feedPc = "built" =>
        LET el == C6_Eligible(feedEntries)
            n == IF feedLimit > 0 THEN C6_Min(feedLimit, Len(el)) ELSE Len(el)
        IN  /\ Len(feedItems) = n
            /\ \A i \in 1..n : feedItems[i].GUID = el[i].ID

\* whether a token is an 8-digit year-month-day date of the calendar
C8_Num(tok, i, j) == DigitVal(tok[i]) * 10 + DigitVal(tok[j])

C8_ValidDate(tok) ==
    /\ Len(tok) = 8
    /\ \A i \in 1..8 : \E d \in 1..10 : Digits[d] = tok[i]
    /\ LET y == C8_Num(tok, 1, 2) * 100 + C8_Num(tok, 3, 4)
           m == C8_Num(tok, 5, 6)
           d == C8_Num(tok, 7, 8)
           feb == IF y % 4 = 0 /\ (y % 100 # 0 \/ y % 400 = 0) THEN 29 ELSE 28
           len == <<31, feb, 31, 30, 31, 30, 31, 31, 30, 31, 30, 31>>
       IN  m \in 1..12 /\ d >= 1 /\ d <= len[m]

\* C8: every child that is not a nested playlist gets its item, whatever its
\* upload date; the item's publish date is empty when the token is absent or
\* no valid 8-digit date, and is the date of the token when it is valid.
C8_BadDateOmitted ==
    feedPc = "built" =>
        LET el == C6_Eligible(feedEntries)
        IN  /\ Len(feedItems) = Len(el)
            /\ \A i \in 1..Len(el) :
                /\ feedItems[i].GUID = el[i].ID
                /\ IF C8_ValidDate(el[i].UploadDate)
                   THEN /\ feedItems[i].PubDate # <<>>
                        /\ feedItems[i].PubDate[2] = C8_Num(el[i].UploadDate, 7, 8)
                        /\ feedItems[i].PubDate[3] = C8_Num(el[i].UploadDate, 5, 6)
                        /\ feedItems[i].PubDate[4] =
                               C8_Num(el[i].UploadDate, 1, 2) * 100 + C8_Num(el[i].UploadDate, 3, 4)
                   ELSE feedItems[i].PubDate = <<>>

\* a feed built from children with the token "2024-13-99", an absent token,
\* a day the month does not have, and a valid date
C8_Witness ==
    /\ feedPc = "built"
    /\ \E i \in 1..Len(feedItems) :
        /\ feedEntries[feedItems[i].GUID].UploadDate = S_malformed
        /\ feedItems[i].PubDate = <<>>
    /\ \E i \in 1..Len(feedItems) :
        /\ feedEntries[feedItems[i].GUID].UploadDate = S_20230229
        /\ feedItems[i].PubDate = <<>>
    /\ \E i \in 1..Len(feedItems) :
        /\ feedEntries[feedItems[i].GUID].UploadDate = S_20240229
        /\ feedItems[i].PubDate = <<4, 29, 2, 2024, 0, 0, 0, "+0000">>

\* C1 (as claimed): once the cancellation signal is raised while the process
\* of a started download is running, the process is terminated (also a
\* process that never exits by itself), and a wait for completion returns.
C1_CancelTerminates ==
    /\ (cancelled /\ dlCmd = "running") ~> (dlCmd = "exited")
    /\ (cancelled /\ callerPc = "waiting") ~> (callerPc = "done")
    /\ [](completions <= 1)

\* C2 (as claimed): for a started download whose tool ends by itself, the
\* wait for completion returns whether the caller drained the stream, closed
\* it early or never read it, and one completion signal is delivered.
C2_WaitReturns ==
    /\ (callerPc = "waiting" /\ ~dlHang) ~> (callerPc = "done" /\ completions = 1)
    /\ [](completions <= 1)

\* C3 (as claimed): no metadata fetch and no download returns to the caller
\* leaving a scratch directory that nothing will remove: after an error
\* return no watcher exists, so the directory must be gone by then.
C3_ScratchRemoved ==
    /\ nfPc = "returned" => nfTempPath # "exists"
    /\ dlPc = "failed" => dlTempPath # "exists"
    /\ dlWatcher = "done" => dlTempPath # "exists"

\* C9 (as claimed): a scratch directory is never removed while the process
\* that has it as working directory is still running.
C9_RemovedAfterExit ==
    /\ nfTempPath = "removed" => nfCmd # "running"
    /\ dlTempPath = "removed" => dlCmd # "running"

\* the candidates whose codec for the kind is not empty and is codecs[p]
C4_Matches(fs, kind, codecs, p) ==
    {j \in 1..Len(fs) : NormCodec(fs[j], kind) # <<>> /\ NormCodec(fs[j], kind) = codecs[p]}

\* what the claim says of a selection r among fs for a preference list
C4_Selected(fs, kind, codecs, r) ==
    IF \A p \in 1..Len(codecs) : C4_Matches(fs, kind, codecs, p) = {}
    THEN r = 0
    ELSE LET best == CHOOSE p \in 1..Len(codecs) :
                        /\ C4_Matches(fs, kind, codecs, p) # {}
                        /\ \A q \in 1..(p - 1) : C4_Matches(fs, kind, codecs, q) = {}
         IN  /\ r \in C4_Matches(fs, kind, codecs, best)
             /\ \A j \in C4_Matches(fs, kind, codecs, best) : r <= j
             /\ InSeq(NormCodec(fs[r], kind), codecs)

C5_Satisfiable(fs, req, kind) ==
    \E j \in 1..Len(fs) :
        /\ NormCodec(fs[j], kind) # <<>>
        /\ \/ effectiveCodecs(req, kind) = <<>>
           \/ InSeq(NormCodec(fs[j], kind), effectiveCodecs(req, kind))

\* C5: a request with a required kind that no candidate satisfies ends with
\* an UnsatisfiableRequestError, no download result and no process started.
C5_UnsatisfiableFails ==
    (/\ selPc # "MetadataReady"
     /\ \/ selRequest.audio /\ ~C5_Satisfiable(selFormats, selRequest, "audio")
        \/ selRequest.video /\ ~C5_Satisfiable(selFormats, selRequest, "video"))
    => /\ selResult = "UnsatisfiableRequestError"
       /\ selPc = "Failed"
       /\ dlPc = "idle"
       /\ dlCmd = "none"
       /\ dlStdout = "none"

\* a source with audio but no video stream against a profile requiring both
C5_Witness ==
    /\ selPc = "Failed"
    /\ selResult = "UnsatisfiableRequestError"
    /\ selRequest.audio /\ selRequest.video
    /\ selStreams.audio # 0
    /\ selFormats # <<>>
    /\ \A j \in 1..Len(selFormats) : selFormats[j].NormVCodec = <<>>


\* C11 (as claimed): when the reading of a caller that neither cancels nor
\* closes the stream has come to its end, the bytes received are all the
\* bytes the process wrote, in the order it wrote them: none is left in the
\* pipe, whenever the watcher saw the process exit.
C11_AllBytesInOrder ==
    (callerRead # "none" /\ ~cancelled /\ ~callerClosed) =>
        /\ dlScript = <<>>
        /\ dlPipe = <<>>
        /\ received = BytesUpTo(Len(received))

====
